---- MODULE Spec2Model ----
(***************************************************************************)
(* The in-memory laundry queue of captainsloths/laundry-scheduler:         *)
(* models.LaundryQueue (src/unnamed/part_003, the current revision of      *)
(* models/schedule.go), its background worker, and the request handlers    *)
(* of handlers/web.go that call it.                                        *)
(*                                                                         *)
(* Time is counted in ticks of one BackgroundWorkerInterval (30 s), so a   *)
(* minute is two ticks.  A *QueueItem is a pointer into `heap`; q.items    *)
(* is a sequence of such pointers.  A *time.Time is << >> (nil) or <<t>>.  *)
(***************************************************************************)
EXTENDS Integers, Sequences, FiniteSets, TLC

----------------------------------------------------------------------------
(* Bounds of the model *)

\* most records created in one behaviour
MaxItems == 2
\* most advances of the clock in one behaviour
MaxTicks == 2

\* most advances of the clock in one behaviour of the concurrent specification
MaxConcTicks == 1
\* most records created in one behaviour whose timers are followed to their end
MaxLiveItems == 1

(* Inputs the handlers pass on *)
Names == {"ann", "bob"}
Durations == {1}
Loads == {1}

----------------------------------------------------------------------------
(* Constants of the program *)

StatusWaiting == "waiting"
StatusInProgress == "in_progress"
StatusCompleted == "completed"

\* seconds in one ticker interval: the unit of the model's clock
BackgroundWorkerInterval == 30
\* time.Minute, in ticks
Minute == 60 \div BackgroundWorkerInterval
\* 5 * time.Minute, in ticks
AutoRemoveDelay == 5 * Minute

\* the clock moves by one ticker interval, or just past an AutoRemoveDelay
TickSteps == {1, AutoRemoveDelay + 1}

----------------------------------------------------------------------------
VARIABLES
    now,     \* the wall clock (time.Now()), in ticks
    ticks,   \* how many times the clock has advanced
    items,   \* q.items: sequence of pointers to QueueItem
    heap,    \* the QueueItem objects that are still referenced, by pointer
    allocs,  \* how many QueueItem objects have been allocated
    gone,    \* history: the pointers Remove or the worker took out of q.items
    writers, \* q.mu: the goroutines holding it locked (Lock)
    readers, \* q.mu: the goroutines holding it read-locked (RLock)
    pc,      \* where each goroutine stands
    local,   \* each request handler's local variables
    wk       \* the worker's local variables: its range index and newItems

conc == <<writers, readers, pc, local, wk>>
vars == <<now, ticks, items, heap, allocs, gone, writers, readers, pc, local, wk>>

\* net/http serves every request on a goroutine of its own: the requests of
\* one behaviour of the concurrent specification
Handlers == {1, 2}
Worker == 0

Nil == << >>
Ref(t) == <<t>>
Deref(p) == p[1]

Range(s) == {s[i] : i \in 1 .. Len(s)}

\* time.Now().Format("20060102150405"): the instant to the whole second
FormatStamp(t) == t * BackgroundWorkerInterval

\* stamp + "-" + name; the stamp has a fixed width, so the pair is the string
MakeID(t, name) == <<FormatStamp(t), name>>

\* an id no AddToQueue ever issued
AbsentID == <<FormatStamp(0), "nobody">>

----------------------------------------------------------------------------
(* QueueItem methods *)

\* int(x) + 1: the minute begun counted as a whole one, also when none is
TruncMinutesPlusOne(d) == d \div Minute + 1

\* int(x) of a non-negative number of minutes given in ticks: truncation
TruncMinutes(d) == d \div Minute

GetRemainingMinutes(q, t) ==
    IF q.Status # StatusInProgress \/ q.StartTime = Nil \/ q.Duration = 0
    THEN 0
    ELSE LET endTime == Deref(q.StartTime) + q.Duration * Minute
             remaining == endTime - t
         IN IF remaining < 0 THEN 0 ELSE TruncMinutes(remaining)

IsTimerExpired(q, t) == GetRemainingMinutes(q, t) <= 0

\* GetEndTime of models/schedule.go: nil without a start time or a duration
GetEndTime(q) ==
    IF q.StartTime = Nil \/ q.Duration = 0
    THEN Nil
    ELSE Ref(Deref(q.StartTime) + q.Duration * Minute)

\* IsTimerExpired of models/schedule.go: time.Now().After(*endTime)
EarlierIsTimerExpired(q, t) ==
    IF q.Status # StatusInProgress \/ q.StartTime = Nil
    THEN FALSE
    ELSE GetEndTime(q) # Nil /\ t > Deref(GetEndTime(q))

\* ShouldAutoRemove with >= for > : the grace period one instant short
ShouldAutoRemoveAtDelay(q, t) ==
    IF q.Status # StatusCompleted \/ q.CompletedAt = Nil
    THEN FALSE
    ELSE t - Deref(q.CompletedAt) >= AutoRemoveDelay

\* ShouldAutoRemove measuring from QueuedAt, whatever the status
ShouldAutoRemoveByAge(q, t) == t - q.QueuedAt > AutoRemoveDelay

ShouldAutoRemove(q, t) ==
    IF q.Status # StatusCompleted \/ q.CompletedAt = Nil
    THEN FALSE
    ELSE t - Deref(q.CompletedAt) > AutoRemoveDelay

----------------------------------------------------------------------------
(* The heap *)

\* the pointer the next &QueueItem{...} yields: a fresh one
NewPtr == allocs + 1

\* garbage collection: a record lives while some slice refers to it
Collect(h, live) == [p \in (DOMAIN h) \cap live |-> h[p]]

\* the ids a request can name: those in the queue, and one that is not
RequestIDs == {heap[p].ID : p \in Range(items)} \cup {AbsentID}

\* the outcome of a method of LaundryQueue: the slice, the objects, the result
Outcome(its, h, ret) == [items |-> its, heap |-> h, ret |-> ret]

----------------------------------------------------------------------------
(* LaundryQueue methods, as run under the lock *)

\* the item AddToQueue builds
WaitingItem(name, numLoads) ==
    [ID |-> MakeID(now, name), Name |-> name, Status |-> StatusWaiting,
     StartTime |-> Nil, Duration |-> 0, NumLoads |-> numLoads,
     CompletedAt |-> Nil, QueuedAt |-> now]

\* AddToQueue putting the new item in front of the slice
DoAddToQueueInFront(name, numLoads) ==
    Outcome(<<NewPtr>> \o items,
            (NewPtr :> WaitingItem(name, numLoads)) @@ heap,
            NewPtr)

DoAddToQueue(name, numLoads) ==
    Outcome(Append(items, NewPtr),
            (NewPtr :> WaitingItem(name, numLoads)) @@ heap,
            NewPtr)

\* StartTimer's loop without its test of item.Status
StartTimerIndexAnyStatus(id) ==
    LET hits == {i \in 1 .. Len(items) : heap[items[i]].ID = id}
    IN IF hits = {} THEN 0 ELSE CHOOSE i \in hits : \A j \in hits : i <= j

\* the index of the record StartTimer's loop stops at, 0 when it runs through
StartTimerIndex(id) ==
    LET hits == {i \in 1 .. Len(items) :
                    heap[items[i]].ID = id /\ heap[items[i]].Status = StatusWaiting}
    IN IF hits = {} THEN 0 ELSE CHOOSE i \in hits : \A j \in hits : i <= j

\* StartTimer without its write of item.StartTime
StartedWithoutStartTime(q, duration) ==
    [q EXCEPT !.Duration = duration, !.Status = StatusInProgress]

\* the record StartTimer writes
Started(q, duration) ==
    [q EXCEPT !.StartTime = Ref(now), !.Duration = duration,
              !.Status = StatusInProgress]

DoStartTimer(id, duration) ==
    LET i == StartTimerIndex(id)
    IN IF i = 0
       THEN Outcome(items, heap, FALSE)
       ELSE Outcome(items, [heap EXCEPT ![items[i]] = Started(@, duration)], TRUE)

\* AddAndStart's item without its StartTime
RunningItemWithoutStart(name, duration, numLoads) ==
    [ID |-> MakeID(now, name), Name |-> name, Status |-> StatusInProgress,
     StartTime |-> Nil, Duration |-> duration, NumLoads |-> numLoads,
     CompletedAt |-> Nil, QueuedAt |-> now]

\* the item AddAndStart builds
RunningItem(name, duration, numLoads) ==
    [ID |-> MakeID(now, name), Name |-> name, Status |-> StatusInProgress,
     StartTime |-> Ref(now), Duration |-> duration, NumLoads |-> numLoads,
     CompletedAt |-> Nil, QueuedAt |-> now]

DoAddAndStart(name, duration, numLoads) ==
    Outcome(Append(items, NewPtr),
            (NewPtr :> RunningItem(name, duration, numLoads)) @@ heap,
            NewPtr)

\* the index of the record Remove's loop stops at, 0 when it runs through
RemoveIndex(id) ==
    LET hits == {i \in 1 .. Len(items) : heap[items[i]].ID = id}
    IN IF hits = {} THEN 0 ELSE CHOOSE i \in hits : \A j \in hits : i <= j

\* append(s[:i], s[i+1:]...), for the 1-based index i
Without(s, i) == SubSeq(s, 1, i - 1) \o SubSeq(s, i + 1, Len(s))

\* Remove returning true also when its loop runs through
DoRemoveReportingSuccess(id) ==
    LET i == RemoveIndex(id)
    IN Outcome(IF i = 0 THEN items ELSE Without(items, i), heap, TRUE)

DoRemove(id) ==
    LET i == RemoveIndex(id)
    IN IF i = 0
       THEN Outcome(items, heap, FALSE)
       ELSE Outcome(Without(items, i), heap, TRUE)

\* the worker's test with the wrong status
ExpiresWhenWaiting(q) == q.Status = StatusWaiting /\ IsTimerExpired(q, now)

\* whether the worker's loop completes item q
Expires(q) == q.Status = StatusInProgress /\ IsTimerExpired(q, now)

\* the record the worker's loop leaves behind for one item
Expire(q) ==
    IF Expires(q)
    THEN [q EXCEPT !.Status = StatusCompleted, !.CompletedAt = Ref(now)]
    ELSE q

\* the pass with newItems built by putting each kept item in front
SweepPassPrepending(its, h) ==
    LET updated == [p \in DOMAIN h |->
                       IF p \in Range(its) THEN Expire(h[p]) ELSE h[p]]
        keep(p) == ~ShouldAutoRemove(updated[p], now)
        kept == SelectSeq(its, keep)
    IN Outcome([i \in 1 .. Len(kept) |-> kept[Len(kept) + 1 - i]], updated, TRUE)

\* the loop of backgroundWorker over the slice its of pointers into h
SweepPass(its, h) ==
    LET updated == [p \in DOMAIN h |->
                       IF p \in Range(its) THEN Expire(h[p]) ELSE h[p]]
        keep(p) == ~ShouldAutoRemove(updated[p], now)
    IN Outcome(SelectSeq(its, keep), updated, TRUE)

\* one pass of the loop of backgroundWorker
DoSweep == SweepPass(items, heap)

\* GetAll updating statuses and dropping old items before it copies, as the
\* GetAll of models/schedule.go did
DoGetAllSweeping == Outcome(DoSweep.items, DoSweep.heap, DoSweep.items)

\* make + copy
DoGetAll == Outcome(items, heap, items)

DoHasActiveLoad ==
    Outcome(items, heap,
            \E i \in 1 .. Len(items) :
                /\ heap[items[i]].Status = StatusInProgress
                /\ ~IsTimerExpired(heap[items[i]], now))

DoHasQueueItems ==
    Outcome(items, heap,
            \E i \in 1 .. Len(items) :
                \/ heap[items[i]].Status = StatusWaiting
                \/ /\ heap[items[i]].Status = StatusInProgress
                   /\ ~IsTimerExpired(heap[items[i]], now))

\* the loop of GetQueuePosition over the slice its of pointers into h, from
\* index i on, `position` waiting records seen
RECURSIVE PositionIn(_, _, _, _, _)
PositionIn(its, h, i, position, id) ==
    IF i > Len(its) THEN -1
    ELSE IF h[its[i]].Status = StatusWaiting
         THEN IF h[its[i]].ID = id THEN position + 1
              ELSE PositionIn(its, h, i + 1, position + 1, id)
         ELSE PositionIn(its, h, i + 1, position, id)

\* the loop of GetQueuePosition over q.items
PositionFrom(i, position, id) == PositionIn(items, heap, i, position, id)

DoGetQueuePosition(id) == Outcome(items, heap, PositionFrom(1, 0, id))

----------------------------------------------------------------------------
(* The queue with every method taken as one step (the lock makes it so) *)

\* a handler between requests
IdleLocal ==
    [kind |-> "none", op |-> "none", name |-> "", id |-> AbsentID, duration |-> 0,
     loads |-> 0, its |-> << >>, result |-> << >>, k |-> 0, seen |-> << >>]

\* the worker between passes
IdleWorker == [i |-> 0, newItems |-> << >>]

Init ==
    /\ now = 0
    /\ ticks = 0
    /\ items = << >>
    /\ heap = << >>
    /\ allocs = 0
    /\ gone = {}
    /\ writers = {}
    /\ readers = {}
    /\ pc = [g \in Handlers \cup {Worker} |-> IF g = Worker THEN "wait" ELSE "idle"]
    /\ local = [h \in Handlers |-> IdleLocal]
    /\ wk = IdleWorker

\* the method's outcome becomes the state; no caller keeps a pointer
Apply(out) ==
    /\ items' = out.items
    /\ heap' = Collect(out.heap, Range(out.items))
    /\ gone' = gone \cup (Range(items) \ Range(out.items))
    /\ UNCHANGED <<now, ticks>>
    /\ UNCHANGED conc

\* the clock advances
Tick ==
    /\ ticks < MaxTicks
    /\ \E d \in TickSteps : now' = now + d
    /\ ticks' = ticks + 1
    /\ UNCHANGED <<items, heap, allocs, gone>>
    /\ UNCHANGED conc

AddToQueue(name, numLoads) ==
    /\ allocs < MaxItems
    /\ Apply(DoAddToQueue(name, numLoads))
    /\ allocs' = allocs + 1

AddAndStart(name, duration, numLoads) ==
    /\ allocs < MaxItems
    /\ Apply(DoAddAndStart(name, duration, numLoads))
    /\ allocs' = allocs + 1

StartTimer(id, duration) == Apply(DoStartTimer(id, duration)) /\ UNCHANGED allocs

Remove(id) == Apply(DoRemove(id)) /\ UNCHANGED allocs

Sweep == Apply(DoSweep) /\ UNCHANGED allocs

GetAll == Apply(DoGetAll) /\ UNCHANGED allocs

HasActiveLoad == Apply(DoHasActiveLoad) /\ UNCHANGED allocs

HasQueueItems == Apply(DoHasQueueItems) /\ UNCHANGED allocs

GetQueuePosition(id) == Apply(DoGetQueuePosition(id)) /\ UNCHANGED allocs

Next ==
    \/ Tick
    \/ Sweep
    \/ \E name \in Names, n \in Loads : AddToQueue(name, n)
    \/ \E name \in Names, d \in Durations, n \in Loads : AddAndStart(name, d, n)
    \/ \E id \in RequestIDs, d \in Durations : StartTimer(id, d)
    \/ \E id \in RequestIDs : Remove(id)
    \/ GetAll
    \/ HasActiveLoad
    \/ HasQueueItems
    \/ \E id \in RequestIDs : GetQueuePosition(id)

Spec == Init /\ [][Next]_vars

----------------------------------------------------------------------------
(* The queue under concurrent requests: sync.RWMutex, the handlers of      *)
(* handlers/web.go as goroutines, and the worker's loop item by item       *)

WriteOps == {"AddToQueue", "AddAndStart", "StartTimer", "Remove", "backgroundWorker"}
ReadOps == {"GetAll", "HasActiveLoad", "HasQueueItems", "GetQueuePosition"}

\* q.mu.Lock() or q.mu.RLock(), by method
LockMode(op) == IF op \in WriteOps THEN "write" ELSE "read"

\* a lock that excludes nobody
CanLockAlways(mode) == TRUE

\* a lock whose writers do not wait for the readers to leave
CanLockIgnoringReaders(mode) == writers = {}

\* whether sync.RWMutex grants the lock in this mode now
CanLock(mode) ==
    IF mode = "write" THEN writers = {} /\ readers = {} ELSE writers = {}

\* the pointers some goroutine's slice refers to
LivePtrs ==
    Range(items) \cup UNION {Range(local[h].result) \cup Range(local[h].its) : h \in Handlers}

\* the clock advances by one ticker interval
CTick ==
    /\ ticks < MaxConcTicks
    /\ now' = now + 1
    /\ ticks' = ticks + 1
    /\ UNCHANGED <<items, heap, allocs, gone>>
    /\ UNCHANGED conc

\* a request arrives and its handler, past validation, makes its first call
\* and takes the lock; the goroutines are started in order
Request(h, kind, op, name, id, duration, loads) ==
    /\ pc[h] = "idle"
    /\ \A g \in Handlers : g < h => pc[g] # "idle"
    /\ CanLock(LockMode(op))
    /\ IF LockMode(op) = "write"
       THEN writers' = writers \cup {h} /\ readers' = readers
       ELSE readers' = readers \cup {h} /\ writers' = writers
    /\ pc' = [pc EXCEPT ![h] = "held"]
    /\ local' = [local EXCEPT ![h] =
                    [IdleLocal EXCEPT !.kind = kind, !.op = op, !.name = name,
                                      !.id = id, !.duration = duration, !.loads = loads]]
    /\ UNCHANGED <<now, ticks, items, heap, allocs, gone, wk>>

\* WebHandler.AddToQueue; duration 0 stands for an empty duration field
AddRequest(h) ==
    \E name \in Names, d \in Durations \cup {0}, n \in Loads :
        Request(h, "add", "HasQueueItems", name, AbsentID, d, n)

\* WebHandler.StartTimer
StartRequest(h) ==
    \E id \in RequestIDs, d \in Durations :
        Request(h, "start", "StartTimer", "", id, d, 0)

\* WebHandler.RemoveFromQueue
RemoveRequest(h) ==
    \E id \in RequestIDs : Request(h, "remove", "Remove", "", id, 0, 0)

\* WebHandler.Index
IndexRequest(h) == Request(h, "index", "HasActiveLoad", "", AbsentID, 0, 0)

\* WebHandler.GetQueue
QueueRequest(h) == Request(h, "queue", "GetAll", "", AbsentID, 0, 0)

\* WebHandler.GetForm
FormRequest(h) == Request(h, "form", "HasQueueItems", "", AbsentID, 0, 0)

\* a caller of the exported GetQueuePosition
PositionRequest(h) ==
    \E id \in RequestIDs : Request(h, "position", "GetQueuePosition", "", id, 0, 0)

\* the first line of a later method: q.mu.Lock() or q.mu.RLock()
Acquire(h) ==
    /\ pc[h] = "call"
    /\ CanLock(LockMode(local[h].op))
    /\ IF LockMode(local[h].op) = "write"
       THEN writers' = writers \cup {h} /\ readers' = readers
       ELSE readers' = readers \cup {h} /\ writers' = writers
    /\ pc' = [pc EXCEPT ![h] = "held"]
    /\ UNCHANGED <<now, ticks, items, heap, allocs, gone, local, wk>>

\* the method the handler calls once `op` has returned `ret`; "none" ends the request
NextOp(kind, op, ret, duration) ==
    CASE kind = "add" /\ op = "HasQueueItems" ->
            IF ret THEN "AddToQueue"
            ELSE IF duration # 0 THEN "AddAndStart" ELSE "AddToQueue"
      [] kind = "add" /\ op \in {"AddToQueue", "AddAndStart"} -> "GetAll"
      [] kind \in {"start", "remove"} /\ op \in {"StartTimer", "Remove"} ->
            IF ret THEN "GetAll" ELSE "none"
      [] kind = "index" /\ op = "HasActiveLoad" -> "GetAll"
      [] OTHER -> "none"

\* what the method under the lock computes
Run(l) ==
    CASE l.op = "StartTimer" -> DoStartTimer(l.id, l.duration)
      [] l.op = "Remove" -> DoRemove(l.id)
      [] l.op = "GetAll" -> DoGetAll
      [] l.op = "HasActiveLoad" -> DoHasActiveLoad
      [] l.op = "HasQueueItems" -> DoHasQueueItems
      [] l.op = "GetQueuePosition" -> DoGetQueuePosition(l.id)
      [] l.op = "AddToQueue" -> DoAddToQueue(l.name, l.loads)
      [] l.op = "AddAndStart" -> DoAddAndStart(l.name, l.duration, l.loads)

\* a deferred RUnlock on every path, which leaves a writer's lock held
ReleaseAsReader(h) ==
    /\ writers' = writers
    /\ readers' = readers \ {h}

\* the deferred Unlock or RUnlock
Release(h) ==
    /\ writers' = writers \ {h}
    /\ readers' = readers \ {h}

\* the handler's locals once the method has returned `ret`
Returned(l, ret) ==
    LET op == NextOp(l.kind, l.op, ret, l.duration)
    IN IF l.op = "GetAll"
       THEN IF ret = << >> THEN IdleLocal
            ELSE [l EXCEPT !.op = "render", !.result = ret, !.k = 1, !.its = << >>]
       ELSE IF op = "none" THEN IdleLocal ELSE [l EXCEPT !.op = op, !.its = << >>]

\* where the handler stands once the method has returned
After(l) ==
    IF l.op = "none" THEN "done" ELSE IF l.op = "render" THEN "render" ELSE "call"

\* AddToQueue and AddAndStart up to append: the item is built and the slice read
Build(h) ==
    /\ pc[h] = "held"
    /\ local[h].op \in {"AddToQueue", "AddAndStart"}
    /\ LET out == Run(local[h])
       IN /\ heap' = out.heap
          /\ local' = [local EXCEPT ![h].its = out.items]
    /\ allocs' = allocs + 1
    /\ pc' = [pc EXCEPT ![h] = "append"]
    /\ UNCHANGED <<now, ticks, items, gone, writers, readers, wk>>

\* q.items = append(...), and the method returns
Store(h) ==
    /\ pc[h] = "append"
    /\ items' = local[h].its
    /\ Release(h)
    /\ local' = [local EXCEPT ![h] = Returned(@, TRUE)]
    /\ pc' = [pc EXCEPT ![h] = After(local'[h])]
    /\ heap' = Collect(heap, LivePtrs')
    /\ UNCHANGED <<now, ticks, allocs, gone, wk>>

\* every other method, from its lock to its return
Finish(h) ==
    /\ pc[h] = "held"
    /\ local[h].op \notin {"AddToQueue", "AddAndStart"}
    /\ LET out == Run(local[h])
       IN /\ items' = out.items
          /\ gone' = gone \cup (Range(items) \ Range(out.items))
          /\ Release(h)
          /\ local' = [local EXCEPT ![h] = Returned(@, out.ret)]
          /\ pc' = [pc EXCEPT ![h] = After(local'[h])]
          /\ heap' = Collect(out.heap, LivePtrs')
    /\ UNCHANGED <<now, ticks, allocs, wk>>

\* renderQueue reads item.Status of the k-th item of its slice, without the lock
RenderStatus(h) ==
    /\ pc[h] = "render"
    /\ local[h].k <= Len(local[h].result)
    /\ local' = [local EXCEPT ![h].seen = <<heap[local[h].result[local[h].k]].Status>>]
    /\ pc' = [pc EXCEPT ![h] = "stamp"]
    /\ UNCHANGED <<now, ticks, items, heap, allocs, gone, writers, readers, wk>>

\* executeTemplate walks the same pointers: the template is handed the item's
\* CompletedAt (a *time.Time, as formatTime takes), read without the lock
RenderStamp(h) ==
    /\ pc[h] = "stamp"
    /\ local' = [local EXCEPT ![h].seen =
                    Append(@, heap[local[h].result[local[h].k]].CompletedAt),
                              ![h].k = @ + 1]
    /\ pc' = [pc EXCEPT ![h] = "render"]
    /\ UNCHANGED <<now, ticks, items, heap, allocs, gone, writers, readers, wk>>

\* the response is written; the slice is dropped and the goroutine ends
RenderDone(h) ==
    /\ pc[h] = "render"
    /\ local[h].k > Len(local[h].result)
    /\ local' = [local EXCEPT ![h] = IdleLocal]
    /\ pc' = [pc EXCEPT ![h] = "done"]
    /\ UNCHANGED <<now, ticks, items, allocs, gone, writers, readers, wk>>
    /\ heap' = Collect(heap, LivePtrs')

\* the ticker fires and the worker locks the queue
WorkerLock ==
    /\ pc[Worker] = "wait"
    /\ CanLock(LockMode("backgroundWorker"))
    /\ writers' = writers \cup {Worker}
    /\ wk' = [i |-> 1, newItems |-> << >>]
    /\ pc' = [pc EXCEPT ![Worker] = "loop"]
    /\ UNCHANGED <<now, ticks, items, heap, allocs, gone, readers, local>>

\* the filter at the end of the loop body, for the item at wk.i
Filtered(h) ==
    [i |-> wk.i + 1,
     newItems |-> IF ShouldAutoRemove(h[items[wk.i]], now)
                  THEN wk.newItems ELSE Append(wk.newItems, items[wk.i])]

\* the loop body for an item whose timer has not expired, or the write of
\* item.Status for one whose timer has
WorkerItem ==
    /\ pc[Worker] = "loop"
    /\ wk.i <= Len(items)
    /\ IF Expires(heap[items[wk.i]])
       THEN /\ heap' = [heap EXCEPT ![items[wk.i]].Status = StatusCompleted]
            /\ pc' = [pc EXCEPT ![Worker] = "stamp"]
            /\ wk' = wk
       ELSE /\ heap' = heap
            /\ pc' = pc
            /\ wk' = Filtered(heap)
    /\ UNCHANGED <<now, ticks, items, allocs, gone, writers, readers, local>>

\* the write of item.CompletedAt, and the rest of the loop body
WorkerStamp ==
    /\ pc[Worker] = "stamp"
    /\ heap' = [heap EXCEPT ![items[wk.i]].CompletedAt = Ref(now)]
    /\ wk' = Filtered(heap')
    /\ pc' = [pc EXCEPT ![Worker] = "loop"]
    /\ UNCHANGED <<now, ticks, items, allocs, gone, writers, readers, local>>

\* q.items = newItems and q.mu.Unlock()
WorkerUnlock ==
    /\ pc[Worker] = "loop"
    /\ wk.i > Len(items)
    /\ items' = wk.newItems
    /\ gone' = gone \cup (Range(items) \ Range(wk.newItems))
    /\ writers' = writers \ {Worker}
    /\ wk' = IdleWorker
    /\ pc' = [pc EXCEPT ![Worker] = "wait"]
    /\ UNCHANGED <<now, ticks, allocs, readers, local>>
    /\ heap' = Collect(heap, LivePtrs')

ConcNext ==
    \/ CTick
    \/ \E h \in Handlers :
        \/ AddRequest(h)
        \/ StartRequest(h)
        \/ RemoveRequest(h)
        \/ IndexRequest(h)
        \/ QueueRequest(h)
        \/ FormRequest(h)
        \/ PositionRequest(h)
        \/ Acquire(h)
        \/ Build(h)
        \/ Store(h)
        \/ Finish(h)
        \/ RenderStatus(h)
        \/ RenderStamp(h)
        \/ RenderDone(h)
    \/ WorkerLock
    \/ WorkerItem
    \/ WorkerStamp
    \/ WorkerUnlock

SpecConc == Init /\ [][ConcNext]_vars

\* the steps of handler h that wait for nothing: it holds the lock or renders
HandlerStep(h) ==
    Build(h) \/ Store(h) \/ Finish(h) \/ RenderStatus(h) \/ RenderStamp(h) \/ RenderDone(h)

\* the steps of the worker's pass once it holds the lock
WorkerStep == WorkerItem \/ WorkerStamp \/ WorkerUnlock

\* the goroutines under Go's scheduler: one that can run does run, and one
\* that waits for q.mu gets it if it is free again and again (sync.RWMutex
\* hands the lock to a waiter and lets no newcomer starve it)
SpecConcFair ==
    /\ Init
    /\ [][ConcNext]_vars
    /\ \A h \in Handlers : SF_vars(Acquire(h) \/ HandlerStep(h))
    /\ SF_vars(WorkerLock \/ WorkerStep)

----------------------------------------------------------------------------
(* The queue with its timers followed to their end: the clock moves one     *)
(* ticker interval at a time, the worker's pass is scheduled fairly         *)

\* the instant at which the worker's pass has something to do for record q:
\* its timer's end while it runs, the first instant past AutoRemoveDelay once
\* it is completed; a waiting record is never due
Due(q) ==
    IF q.Status = StatusInProgress /\ q.StartTime # Nil
    THEN Deref(q.StartTime) + q.Duration * Minute
    ELSE IF q.Status = StatusCompleted /\ q.CompletedAt # Nil
         THEN Deref(q.CompletedAt) + AutoRemoveDelay + 1
         ELSE 0

\* the clock advances by one ticker interval; it is followed up to the
\* instant at which every record of the queue is due, past which the
\* worker's pass no longer depends on the time
LTick ==
    /\ \E i \in 1 .. Len(items) : now < Due(heap[items[i]])
    /\ now' = now + 1
    /\ UNCHANGED <<ticks, items, heap, allocs, gone>>
    /\ UNCHANGED conc

\* the durations, in minutes, of the timers followed to their end
LiveDurations == {1, 2}

LiveNext ==
    \/ LTick
    \/ Sweep
    \/ \E name \in Names, n \in Loads :
          allocs < MaxLiveItems /\ AddToQueue(name, n)
    \/ \E name \in Names, d \in LiveDurations, n \in Loads :
          allocs < MaxLiveItems /\ AddAndStart(name, d, n)
    \/ \E id \in RequestIDs, d \in LiveDurations : StartTimer(id, d)
    \/ \E id \in RequestIDs : Remove(id)

\* the ticker fires every BackgroundWorkerInterval and sync.RWMutex does not
\* starve a writer: time passes and the worker's pass runs
SpecLive == Init /\ [][LiveNext]_vars /\ WF_vars(LTick) /\ WF_vars(Sweep)

----------------------------------------------------------------------------
(* The exported methods called directly, past the handlers' validation: a   *)
(* Go caller of StartTimer and AddAndStart can pass any int as the duration *)

StoreDurations == {0, 1}

StoreNext ==
    \/ Tick
    \/ Sweep
    \/ \E name \in Names, n \in Loads : AddToQueue(name, n)
    \/ \E name \in Names, d \in StoreDurations, n \in Loads : AddAndStart(name, d, n)
    \/ \E id \in RequestIDs, d \in StoreDurations : StartTimer(id, d)
    \/ \E id \in RequestIDs : Remove(id)

SpecStore == Init /\ [][StoreNext]_vars

----------------------------------------------------------------------------
(* The LaundryQueue of models/schedule.go, the earlier variant: its GetAll  *)
(* takes the write lock and updates the queue; AddToQueue, StartTimer,      *)
(* AddAndStart, GetQueuePosition and Remove read as they do in part_003     *)

\* ShouldAutoRemove of models/schedule.go
EarlierShouldAutoRemove(q, t) ==
    IF q.Status # StatusCompleted \/ q.CompletedAt = Nil
    THEN FALSE
    ELSE t - Deref(q.CompletedAt) > 5 * Minute

\* the record the worker's loop leaves behind for one item
EarlierExpire(q) ==
    IF q.Status = StatusInProgress /\ EarlierIsTimerExpired(q, now)
    THEN [q EXCEPT !.Status = StatusCompleted, !.CompletedAt = Ref(now)]
    ELSE q

\* the record the first loop of GetAll leaves behind for one item
EarlierUpdate(q) ==
    IF q.Status = StatusInProgress /\ EarlierIsTimerExpired(q, now)
    THEN [q EXCEPT !.Status = StatusCompleted,
                   !.CompletedAt = IF q.CompletedAt = Nil THEN Ref(now) ELSE @]
    ELSE q

\* one pass of the loop of backgroundWorker
DoEarlierSweep ==
    LET updated == [p \in DOMAIN heap |->
                       IF p \in Range(items) THEN EarlierExpire(heap[p]) ELSE heap[p]]
        keep(p) == ~EarlierShouldAutoRemove(updated[p], now)
    IN Outcome(SelectSeq(items, keep), updated, TRUE)

\* GetAll without its second loop: statuses updated, nothing removed
DoEarlierGetAllKeepingAll ==
    LET updated == [p \in DOMAIN heap |->
                       IF p \in Range(items) THEN EarlierUpdate(heap[p]) ELSE heap[p]]
    IN Outcome(items, updated, items)

\* GetAll: the loop that updates, the loop that removes, the copy
DoEarlierGetAll ==
    LET updated == [p \in DOMAIN heap |->
                       IF p \in Range(items) THEN EarlierUpdate(heap[p]) ELSE heap[p]]
        keep(p) == ~EarlierShouldAutoRemove(updated[p], now)
        newItems == SelectSeq(items, keep)
    IN Outcome(newItems, updated, newItems)

DoEarlierHasActiveLoad ==
    Outcome(items, heap,
            \E i \in 1 .. Len(items) :
                /\ heap[items[i]].Status = StatusInProgress
                /\ ~EarlierIsTimerExpired(heap[items[i]], now))

DoEarlierHasQueueItems ==
    Outcome(items, heap,
            \E i \in 1 .. Len(items) :
                \/ heap[items[i]].Status = StatusWaiting
                \/ /\ heap[items[i]].Status = StatusInProgress
                   /\ ~EarlierIsTimerExpired(heap[items[i]], now))

EarlierSweep == Apply(DoEarlierSweep) /\ UNCHANGED allocs

EarlierGetAll == Apply(DoEarlierGetAll) /\ UNCHANGED allocs

EarlierHasActiveLoad == Apply(DoEarlierHasActiveLoad) /\ UNCHANGED allocs

EarlierHasQueueItems == Apply(DoEarlierHasQueueItems) /\ UNCHANGED allocs

EarlierNext ==
    \/ Tick
    \/ EarlierSweep
    \/ \E name \in Names, n \in Loads : AddToQueue(name, n)
    \/ \E name \in Names, d \in Durations, n \in Loads : AddAndStart(name, d, n)
    \/ \E id \in RequestIDs, d \in Durations : StartTimer(id, d)
    \/ \E id \in RequestIDs : Remove(id)
    \/ EarlierGetAll
    \/ EarlierHasActiveLoad
    \/ EarlierHasQueueItems
    \/ \E id \in RequestIDs : GetQueuePosition(id)

SpecEarlier == Init /\ [][EarlierNext]_vars

----------------------------------------------------------------------------
(* The handlers of handlers/web.go, each request served from its first     *)
(* line to its response with no other goroutine in between                  *)

\* the decimal strings among the form values below, and strconv.Atoi of them
Numerals == {"1", "0", "11"}
Atoi(s) == CASE s = "1" -> 1 [] s = "0" -> 0 [] s = "11" -> 11
\* strconv.Atoi returns an error: the empty string and "x" are no numbers
AtoiFails(s) == s \notin Numerals

\* the form values a request can carry
FormNames == Names \cup {""}
FormLoads == {"1", "0", "11", "x"}
FormDurations == {"", "1", "0", "x"}

\* err != nil || numLoads <= 0 || numLoads > 10, negated
ValidLoads(s) == ~AtoiFails(s) /\ Atoi(s) > 0 /\ Atoi(s) <= 10

\* the test of the duration with >= for >
ValidDurationOrZero(s) == ~AtoiFails(s) /\ Atoi(s) >= 0

\* err == nil && duration > 0
ValidDuration(s) == ~AtoiFails(s) /\ Atoi(s) > 0

\* http.Error: the request ends with an error response
Refused(msg) == Outcome(items, heap, msg)

\* renderQueue after the store call: the response is the queue, rendered
Served(out) == Outcome(out.items, out.heap, "queue.html")

\* WebHandler.AddToQueue
DoWebAddToQueue(name, numLoads, durationStr) ==
    IF name = "" THEN Refused("Name is required")
    ELSE IF ~ValidLoads(numLoads)
    THEN Refused("Invalid number of loads (must be 1-10)")
    ELSE IF DoHasQueueItems.ret
    THEN Served(DoAddToQueue(name, Atoi(numLoads)))
    ELSE IF durationStr # ""
    THEN IF ValidDuration(durationStr)
         THEN Served(DoAddAndStart(name, Atoi(durationStr), Atoi(numLoads)))
         ELSE Refused("Invalid duration")
    ELSE Served(DoAddToQueue(name, Atoi(numLoads)))

\* WebHandler.StartTimer
DoWebStartTimer(id, durationStr) ==
    IF ~ValidDuration(durationStr) THEN Refused("Invalid duration")
    ELSE IF ~DoStartTimer(id, Atoi(durationStr)).ret
    THEN Refused("Could not start timer")
    ELSE Served(DoStartTimer(id, Atoi(durationStr)))

\* WebHandler.RemoveFromQueue, for a path that names an id
DoWebRemoveFromQueue(id) ==
    IF ~DoRemove(id).ret THEN Refused("Item not found")
    ELSE Served(DoRemove(id))

\* the handler's outcome becomes the state; a new record counts as allocated
Respond(out) ==
    /\ Len(out.items) > Len(items) => allocs < MaxItems
    /\ Apply(out)
    /\ allocs' = IF Len(out.items) > Len(items) THEN allocs + 1 ELSE allocs

WebAddToQueue(name, numLoads, durationStr) ==
    Respond(DoWebAddToQueue(name, numLoads, durationStr))

WebStartTimer(id, durationStr) == Respond(DoWebStartTimer(id, durationStr))

WebRemoveFromQueue(id) == Respond(DoWebRemoveFromQueue(id))

\* WebHandler.Index: HasActiveLoad and renderQueue's GetAll
WebIndex == Respond(Served(DoGetAll))

\* WebHandler.GetQueue: renderQueue
WebGetQueue == Respond(Served(DoGetAll))

\* WebHandler.GetForm: HasQueueItems
WebGetForm == Respond(Served(DoHasQueueItems))

WebNext ==
    \/ Tick
    \/ Sweep
    \/ \E name \in FormNames, n \in FormLoads, d \in FormDurations :
          WebAddToQueue(name, n, d)
    \/ \E id \in RequestIDs, d \in FormDurations : WebStartTimer(id, d)
    \/ \E id \in RequestIDs : WebRemoveFromQueue(id)
    \/ WebIndex
    \/ WebGetQueue
    \/ WebGetForm

SpecWeb == Init /\ [][WebNext]_vars

----------------------------------------------------------------------------
(* The ScheduleStore of models/schedule.go: here `items` is the map s.items *)
(* from ID to *ScheduleItem and `heap` holds the ScheduleItem objects       *)

\* how many Add calls a behaviour makes
MaxAdds == 4

\* the items a caller hands to Add
ScheduleIDs == {"s1", "s2", "s3"}
StartTimes == {0, 1, 2}
ScheduleItems ==
    [ID : ScheduleIDs, Title : {"wash"}, Description : {""},
     StartTime : StartTimes, EndTime : {3}, CreatedAt : {0}]

\* items[i], items[j] = items[j], items[i]
Swap(s, i, j) == [s EXCEPT ![i] = s[j], ![j] = s[i]]

\* the two loops with the inner one starting at j := i + 2
RECURSIVE SortLoopSkipping(_, _, _)
SortLoopSkipping(s, i, j) ==
    IF ~(i < Len(s) - 1) THEN s
    ELSE IF ~(j < Len(s)) THEN SortLoopSkipping(s, i + 1, i + 3)
    ELSE SortLoopSkipping(IF heap[s[i + 1]].StartTime > heap[s[j + 1]].StartTime
                          THEN Swap(s, i + 1, j + 1) ELSE s,
                          i, j + 1)

\* the two loops of GetAll over the slice s of pointers, 0-based i and j
RECURSIVE SortLoop(_, _, _)
SortLoop(s, i, j) ==
    IF ~(i < Len(s) - 1) THEN s
    ELSE IF ~(j < Len(s)) THEN SortLoop(s, i + 1, i + 2)
    ELSE SortLoop(IF heap[s[i + 1]].StartTime > heap[s[j + 1]].StartTime
                  THEN Swap(s, i + 1, j + 1) ELSE s,
                  i, j + 1)


\* the orders in which `for _, item := range s.items` can visit the keys
RangeOrders ==
    {o \in [1 .. Cardinality(DOMAIN items) -> DOMAIN items] :
        \A a, b \in DOMAIN o : a # b => o[a] # o[b]}

\* ScheduleStore.GetAll, with the map visited in order o
DoScheduleGetAll(o) == SortLoop([k \in DOMAIN o |-> items[o[k]]], 0, 1)

\* ScheduleStore.Get
DoScheduleGet(id) ==
    IF id \in DOMAIN items THEN <<items[id], TRUE>> ELSE <<Nil, FALSE>>

\* ScheduleStore.Add: s.items[item.ID] = item, item a new object; the item
\* that had the ID is no longer stored
ScheduleAdd(item) ==
    /\ allocs < MaxAdds
    /\ items' = [k \in DOMAIN items \cup {item.ID} |->
                    IF k = item.ID THEN NewPtr ELSE items[k]]
    /\ heap' = [p \in {items'[k] : k \in DOMAIN items'} |->
                    IF p = NewPtr THEN item ELSE heap[p]]
    /\ gone' = gone \cup {items[k] : k \in DOMAIN items \cap {item.ID}}
    /\ allocs' = allocs + 1
    /\ UNCHANGED <<now, ticks>>
    /\ UNCHANGED conc

\* ScheduleStore.Remove: delete(s.items, id) if the key exists
ScheduleRemove(id) ==
    /\ IF id \in DOMAIN items
       THEN /\ items' = [k \in DOMAIN items \ {id} |-> items[k]]
            /\ heap' = [p \in {items'[k] : k \in DOMAIN items'} |-> heap[p]]
            /\ gone' = gone \cup {items[id]}
       ELSE UNCHANGED <<items, heap, gone>>
    /\ UNCHANGED <<now, ticks, allocs>>
    /\ UNCHANGED conc

\* ScheduleStore.GetAll and ScheduleStore.Get read under RLock
ScheduleGetAll ==
    /\ \E o \in RangeOrders : Len(DoScheduleGetAll(o)) >= 0
    /\ UNCHANGED vars

ScheduleGet(id) == DoScheduleGet(id)[2] \in BOOLEAN /\ UNCHANGED vars

ScheduleNext ==
    \/ \E item \in ScheduleItems : ScheduleAdd(item)
    \/ \E id \in ScheduleIDs : ScheduleRemove(id)
    \/ ScheduleGetAll
    \/ \E id \in ScheduleIDs : ScheduleGet(id)

SpecSchedule == Init /\ [][ScheduleNext]_vars

----------------------------------------------------------------------------
(* Properties *)

Waiting(q) == q.Status = StatusWaiting
InProgress(q) == q.Status = StatusInProgress
Completed(q) == q.Status = StatusCompleted

\* the instant StartTime + Duration of a started record
Deadline(q) == Deref(q.StartTime) + q.Duration * Minute

\* the records of the queue, in order
Queue == [i \in 1 .. Len(items) |-> heap[items[i]]]

\* C1: no two reservations held in the queue have the same ID, also when
\* both were created within the same second for the same name
C1_UniqueIDs ==
    \A i, j \in 1 .. Len(items) : i # j => Queue[i].ID # Queue[j].ID

\* the records an AddToQueue or AddAndStart has allocated and not yet stored
PendingAdds ==
    {local[h].its[Len(local[h].its)] : h \in {g \in Handlers : pc[g] = "append"}}

\* C2: concurrent enqueues are neither lost nor duplicated: every record
\* allocated by an add that has returned is in q.items exactly once unless
\* Remove or the worker took it out, and, while nothing has been taken out,
\* a slice GetAll returned is the queue as it was: a prefix of q.items
C2_NoLostEnqueue ==
    /\ \A i, j \in 1 .. Len(items) : i # j => items[i] # items[j]
    /\ Range(items) = (1 .. allocs) \ (gone \cup PendingAdds)
    /\ \A h \in Handlers :
          gone = {} /\ Len(local[h].result) > 0 =>
              /\ Len(local[h].result) <= Len(items)
              /\ local[h].result = SubSeq(items, 1, Len(local[h].result))

\* two add requests have both stored their record, and the GetAll of one of
\* them, taken after both, holds the two records
C2_Witness ==
    /\ \A h \in Handlers : local[h].kind = "add" /\ local[h].op = "render"
    /\ \E h \in Handlers : Len(local[h].result) = 2
    /\ gone = {}

\* a status may stay, or move one step forward
StatusStep(a, b) ==
    \/ a = b
    \/ a = StatusWaiting /\ b = StatusInProgress
    \/ a = StatusInProgress /\ b = StatusCompleted

\* C3: the status of a record only moves forward, waiting -> in_progress ->
\* completed, a new record starts waiting or in_progress, and a record that
\* left the queue never comes back
C3_StatusMonotonic ==
    [][/\ \A p \in DOMAIN heap \cap DOMAIN heap' :
             StatusStep(heap[p].Status, heap'[p].Status)
       /\ \A p \in (DOMAIN heap') \ DOMAIN heap : ~Completed(heap'[p])
       /\ \A p \in Range(items') : p \in Range(items) \/ p > allocs
      ]_vars

\* a record that was queued, started later, and has been completed
C3_Witness ==
    \E i \in 1 .. Len(items) :
        Completed(Queue[i]) /\ Deref(Queue[i].StartTime) > Queue[i].QueuedAt

\* StartTime and Duration are set exactly for in_progress and completed
\* records, CompletedAt exactly for completed ones
FieldsMatchStatus(q) ==
    /\ (q.StartTime # Nil /\ q.Duration # 0) <=> (InProgress(q) \/ Completed(q))
    /\ (q.StartTime # Nil \/ q.Duration # 0) <=> (InProgress(q) \/ Completed(q))
    /\ q.CompletedAt # Nil <=> Completed(q)

\* C4: whenever nobody holds the write lock, every record of the queue has
\* StartTime and Duration set exactly when it is in_progress or completed,
\* and CompletedAt set exactly when it is completed
C4_FieldsMatchStatus ==
    writers = {} => \A i \in 1 .. Len(items) : FieldsMatchStatus(Queue[i])

\* the lock is free and the queue holds a completed record and one that is not
C4_Witness ==
    /\ writers = {}
    /\ readers = {}
    /\ \E i \in 1 .. Len(items) : Completed(Queue[i])
    /\ \E i \in 1 .. Len(items) : ~Completed(Queue[i])

\* C5: a handler rendering the slice GetAll returned sees, for each record,
\* a Status and a CompletedAt that belong together
C5_NoTornRead ==
    \A h \in Handlers :
        Len(local[h].seen) = 2 =>
            (local[h].seen[1] = StatusCompleted <=> local[h].seen[2] # Nil)

\* C6: once GetAll has returned a slice, no later operation changes the
\* records seen through it
C6_SnapshotStable ==
    [][\A h \in Handlers :
           Len(local[h].result) > 0 /\ local'[h].result = local[h].result =>
               \A p \in Range(local[h].result) : heap'[p] = heap[p]
      ]_vars

\* a step of one of the four read methods
ReadStep ==
    \/ GetAll
    \/ HasActiveLoad
    \/ HasQueueItems
    \/ \E id \in RequestIDs : GetQueuePosition(id)

\* a step in which a record becomes completed, has CompletedAt written, or
\* leaves the queue while completed
CompletionStep ==
    \/ \E p \in DOMAIN heap \cap DOMAIN heap' :
          \/ ~Completed(heap[p]) /\ Completed(heap'[p])
          \/ heap'[p].CompletedAt # heap[p].CompletedAt
    \/ \E p \in Range(items) \ Range(items') : Completed(heap[p])

\* C7: the read methods leave the queue as it is, and only the worker's pass
\* completes records and stamps CompletedAt; a completed record leaves the
\* queue only by the worker's pass or by Remove
C7_ReadsArePure ==
    [][/\ ReadStep => UNCHANGED <<items, heap>>
       /\ CompletionStep => Sweep \/ \E id \in RequestIDs : Remove(id)
       /\ CompletionStep /\ ~Sweep =>
             \A p \in DOMAIN heap \cap DOMAIN heap' : heap'[p] = heap[p]
      ]_vars

\* the queue holds a record past its grace period and one whose timer has
\* run out, neither yet touched: what a read must leave alone
C7_Witness ==
    /\ \E i \in 1 .. Len(items) : ShouldAutoRemove(Queue[i], now)
    /\ \E i \in 1 .. Len(items) : Expires(Queue[i])

\* what a goroutine that is inside a method holds of q.mu
HoldsRightLock(h) ==
    pc[h] \in {"held", "append"} =>
        IF local[h].op \in {"AddToQueue", "AddAndStart", "StartTimer", "Remove"}
        THEN h \in writers
        ELSE h \in readers /\ local[h].op \in ReadOps

\* the lock at every instant
LockInvariant ==
    /\ Cardinality(writers) <= 1
    /\ writers # {} => readers = {}
    /\ \A h \in Handlers : HoldsRightLock(h)
    /\ \A h \in readers : pc[h] = "held" /\ local[h].op \in ReadOps
    /\ \A g \in writers : g = Worker \/ local[g].op \in WriteOps
    /\ pc[Worker] \in {"loop", "stamp"} <=> Worker \in writers

\* a step that writes q.items, writes a field of a record, or adds a record
WriteStep ==
    \/ items' # items
    \/ \E p \in DOMAIN heap \cap DOMAIN heap' : heap'[p] # heap[p]
    \/ (DOMAIN heap') \ DOMAIN heap # {}

\* C8: q.items and the records are written only while one goroutine holds
\* the lock exclusively; a writer never holds it together with a reader or
\* another writer, and the read methods hold it shared
C8_LockDiscipline ==
    [][/\ LockInvariant'
       /\ WriteStep => Cardinality(writers) = 1 /\ readers = {}
      ]_vars

\* two readers hold the lock together while nobody writes
C8_Witness ==
    /\ Cardinality(readers) = 2
    /\ writers = {}

\* C9: an in_progress record is not expired, and does not show 0 minutes
\* remaining, at any instant before StartTime + Duration
C9_NoEarlyExpiry ==
    \A i \in 1 .. Len(items) :
        InProgress(Queue[i]) /\ now < Deadline(Queue[i]) =>
            /\ ~IsTimerExpired(Queue[i], now)
            /\ GetRemainingMinutes(Queue[i], now) # 0

\* C10: the pass that completes a record stamps a CompletedAt at or after the
\* record's deadline, and no later step changes the CompletedAt of a
\* completed record
C10_CompletedOnceAfterDeadline ==
    [][\A p \in DOMAIN heap \cap DOMAIN heap' :
           /\ InProgress(heap[p]) /\ Completed(heap'[p]) =>
                 Deref(heap'[p].CompletedAt) >= Deadline(heap[p])
           /\ Completed(heap[p]) =>
                 Completed(heap'[p]) /\ heap'[p].CompletedAt = heap[p].CompletedAt
      ]_vars

\* the grace period of the claims: five minutes
Grace == 5 * Minute

\* C11: a pass of the worker evicts a completed record exactly when
\* now - CompletedAt is strictly greater than five minutes; a record that is
\* not completed when the pass starts, the one the pass completes included,
\* stays
C11_EvictedAfterGrace ==
    \A p \in Range(items) :
        IF Completed(heap[p])
        THEN p \notin Range(DoSweep.items) <=>
                 now - Deref(heap[p].CompletedAt) > Grace
        ELSE p \in Range(DoSweep.items)

\* a completed record is one instant past its grace period, and the pass at
\* this instant takes it out
C11_Witness ==
    \E i \in 1 .. Len(items) :
        /\ Completed(Queue[i])
        /\ now - Deref(Queue[i].CompletedAt) = Grace + 1
        /\ items[i] \notin Range(DoSweep.items)

\* C12: a pass of the worker keeps every waiting record, with every field as
\* it was, and keeps every in_progress record whose deadline has not passed
C12_SweepKeepsWaitingAndRunning ==
    \A p \in Range(items) :
        /\ Waiting(heap[p]) =>
              p \in Range(DoSweep.items) /\ DoSweep.heap[p] = heap[p]
        /\ InProgress(heap[p]) /\ now < Deadline(heap[p]) =>
              p \in Range(DoSweep.items)

\* the queue holds a waiting record older than the grace period and a running
\* record before its deadline that the pass at this instant completes
C12_Witness ==
    /\ \E i \in 1 .. Len(items) :
          Waiting(Queue[i]) /\ now - Queue[i].QueuedAt > Grace
    /\ \E i \in 1 .. Len(items) :
          /\ InProgress(Queue[i])
          /\ now < Deadline(Queue[i])
          /\ Completed(DoSweep.heap[items[i]])

\* C13: with time passing and the worker's pass scheduled fairly, every
\* record that is in_progress or completed eventually leaves the queue (from
\* some instant on only waiting records are left), and an in_progress record
\* leaves only by Remove: unless it is removed it is completed first and
\* evicted afterwards
C13_EventuallyCompletedAndEvicted ==
    /\ <>[](\A i \in 1 .. Len(items) : Waiting(Queue[i]))
    /\ [][\A p \in Range(items) \ Range(items') :
             InProgress(heap[p]) => \E id \in RequestIDs : Remove(id)]_vars

\* a record whose timer ran to its deadline before the worker completed it
\* has reached the first instant past its grace period
C13_Witness ==
    \E i \in 1 .. Len(items) :
        /\ Completed(Queue[i])
        /\ Deref(Queue[i].CompletedAt) >= Deadline(Queue[i])
        /\ now = Deref(Queue[i].CompletedAt) + Grace + 1

\* C14: HasActiveLoad returns true exactly when some record is in_progress
\* and the time is strictly before its StartTime + Duration
C14_HasActiveLoadIffRunning ==
    DoHasActiveLoad.ret <=>
        \E i \in 1 .. Len(items) :
            InProgress(Queue[i]) /\ now < Deadline(Queue[i])

\* C15: HasQueueItems returns true exactly when some record is waiting, or is
\* in_progress with the time strictly before its StartTime + Duration
C15_HasQueueItemsIffWaitingOrRunning ==
    DoHasQueueItems.ret <=>
        \E i \in 1 .. Len(items) :
            \/ Waiting(Queue[i])
            \/ InProgress(Queue[i]) /\ now < Deadline(Queue[i])

\* C16: while a handler's AddAndStart is about to store its record, the queue
\* holds no waiting record and no in_progress record whose timer still runs
C16_AddAndStartOnlyWhenIdle ==
    \A h \in Handlers :
        pc[h] = "append" /\ local[h].op = "AddAndStart" =>
            \A i \in 1 .. Len(items) :
                /\ ~Waiting(Queue[i])
                /\ ~(InProgress(Queue[i]) /\ ~IsTimerExpired(Queue[i], now))

\* the positions of the waiting records with this id
WaitingWithID(id) ==
    {i \in 1 .. Len(items) : Queue[i].ID = id /\ Waiting(Queue[i])}

\* C17: StartTimer(id, duration) returns true exactly when the queue holds a
\* waiting record with that id; it then leaves the sequence as it is, gives
\* one such record StartTime = now, Duration = duration and Status
\* in_progress, and changes no other record and no other field
C17_StartTimerStartsWaitingRecord ==
    \A id \in RequestIDs, d \in Durations :
        LET out == DoStartTimer(id, d)
        IN /\ out.ret <=> WaitingWithID(id) # {}
           /\ out.ret =>
                 /\ out.items = items
                 /\ DOMAIN out.heap = DOMAIN heap
                 /\ \E i \in WaitingWithID(id) :
                       /\ out.heap[items[i]] =
                             [Queue[i] EXCEPT !.StartTime = <<now>>,
                                              !.Duration = d,
                                              !.Status = StatusInProgress]
                       /\ \A p \in DOMAIN heap \ {items[i]} :
                             out.heap[p] = heap[p]

\* a record started some time after it was queued stands before a record
\* that still waits
C17_Witness ==
    \E i, j \in 1 .. Len(items) :
        /\ i < j
        /\ InProgress(Queue[i])
        /\ Deref(Queue[i].StartTime) > Queue[i].QueuedAt
        /\ Waiting(Queue[j])

\* C18: StartTimer on an id that no record has, or that a record that is
\* in_progress or completed has, returns false and changes nothing
C18_StartTimerFailsWithoutMutation ==
    \A id \in RequestIDs, d \in Durations :
        (\/ \A i \in 1 .. Len(items) : Queue[i].ID # id
         \/ \E i \in 1 .. Len(items) : Queue[i].ID = id /\ ~Waiting(Queue[i]))
        => /\ ~DoStartTimer(id, d).ret
           /\ DoStartTimer(id, d).items = items
           /\ DoStartTimer(id, d).heap = heap

\* C19: once StartTimer(id, d) has returned true, the next StartTimer with
\* the same id returns false
C19_SecondStartTimerFails ==
    [][\A id \in RequestIDs, d \in Durations :
           StartTimer(id, d) /\ DoStartTimer(id, d).ret =>
               \A e \in Durations : ~(DoStartTimer(id, e).ret)'
      ]_vars

\* C20: Remove(id) on an id that a record has returns true, leaves no record
\* with this id in the queue, takes one record out and keeps the others as
\* they were and in their order
C20_RemoveDeletesByID ==
    \A id \in RequestIDs :
        (\E i \in 1 .. Len(items) : Queue[i].ID = id) =>
            LET out == DoRemove(id)
            IN /\ out.ret
               /\ \A p \in Range(out.items) : heap[p].ID # id
               /\ \E i \in 1 .. Len(items) :
                     /\ Queue[i].ID = id
                     /\ out.items = SubSeq(items, 1, i - 1)
                                       \o SubSeq(items, i + 1, Len(items))
               /\ out.heap = heap

\* every id AddToQueue or AddAndStart can have issued so far, and one that
\* none has
KnownIDs == {MakeID(t, name) : t \in 0 .. now, name \in Names} \cup {AbsentID}

\* C21: Remove(id) for an id that no record of the queue has (never issued,
\* already removed or already evicted) returns false and leaves the sequence
\* and the records as they are
C21_RemoveAbsentChangesNothing ==
    \A id \in KnownIDs :
        (\A i \in 1 .. Len(items) : Queue[i].ID # id) =>
            /\ ~DoRemove(id).ret
            /\ DoRemove(id).items = items
            /\ DoRemove(id).heap = heap
            /\ DoGetAll.ret = items

\* a record has left the queue, its id is no longer there, and other records
\* are still queued
C21_Witness ==
    /\ gone # {}
    /\ items # << >>
    /\ \E id \in KnownIDs \ {AbsentID} :
          \A i \in 1 .. Len(items) : Queue[i].ID # id

\* how many waiting records stand at the positions up to i
WaitingRank(i) == Cardinality({j \in 1 .. i : Waiting(Queue[j])})

\* C22: GetQueuePosition(id) returns the rank among the waiting records of
\* the record with that id, and -1 when no record has the id or when the
\* record with the id is in_progress or completed
C22_PositionIsWaitingRank ==
    \A id \in KnownIDs :
        /\ \A i \in 1 .. Len(items) :
              Queue[i].ID = id /\ Waiting(Queue[i]) =>
                  DoGetQueuePosition(id).ret = WaitingRank(i)
        /\ \A i \in 1 .. Len(items) :
              Queue[i].ID = id /\ ~Waiting(Queue[i]) =>
                  DoGetQueuePosition(id).ret = -1
        /\ (\A i \in 1 .. Len(items) : Queue[i].ID # id) =>
              DoGetQueuePosition(id).ret = -1

\* C23: GetQueuePosition asked for the waiting records in their order yields
\* the ranks 1, 2, ..., k: strictly increasing, records that are in_progress
\* or completed not counted
C23_PositionsIncrease ==
    \A i, j \in 1 .. Len(items) :
        Waiting(Queue[i]) /\ Waiting(Queue[j]) /\ i < j =>
            /\ DoGetQueuePosition(Queue[i].ID).ret
                  < DoGetQueuePosition(Queue[j].ID).ret
            /\ DoGetQueuePosition(Queue[j].ID).ret = WaitingRank(j)

\* C24: AddToQueue(name, loads) appends one new waiting record, with no
\* StartTime, Duration or CompletedAt, at the end of the sequence, returns
\* it, and leaves every record that was there as it was
C24_AddToQueueAppendsWaiting ==
    \A name \in Names, n \in Loads :
        LET out == DoAddToQueue(name, n)
        IN /\ out.ret \notin DOMAIN heap
           /\ out.items = items \o <<out.ret>>
           /\ DOMAIN out.heap = DOMAIN heap \cup {out.ret}
           /\ \A p \in DOMAIN heap : out.heap[p] = heap[p]
           /\ out.heap[out.ret].Status = StatusWaiting
           /\ out.heap[out.ret].Name = name
           /\ out.heap[out.ret].NumLoads = n
           /\ out.heap[out.ret].StartTime = << >>
           /\ out.heap[out.ret].Duration = 0
           /\ out.heap[out.ret].CompletedAt = << >>

\* a waiting record was appended behind a record that is not waiting
C24_Witness ==
    /\ Len(items) = 2
    /\ ~Waiting(Queue[1])
    /\ Waiting(Queue[2])
    /\ Queue[2].QueuedAt > Queue[1].QueuedAt

\* C25: AddAndStart(name, duration, loads) appends one new record at the end
\* of the sequence, in_progress, with StartTime the time of the call, the
\* given Duration and no CompletedAt, returns it, and leaves every record
\* that was there as it was
C25_AddAndStartAppendsRunning ==
    \A name \in Names, d \in Durations, n \in Loads :
        LET out == DoAddAndStart(name, d, n)
        IN /\ out.ret \notin DOMAIN heap
           /\ out.items = items \o <<out.ret>>
           /\ DOMAIN out.heap = DOMAIN heap \cup {out.ret}
           /\ \A p \in DOMAIN heap : out.heap[p] = heap[p]
           /\ out.heap[out.ret].Status = StatusInProgress
           /\ out.heap[out.ret].Name = name
           /\ out.heap[out.ret].NumLoads = n
           /\ out.heap[out.ret].StartTime = <<now>>
           /\ out.heap[out.ret].Duration = d
           /\ out.heap[out.ret].CompletedAt = << >>

\* a running record was appended, some time after the start of the run,
\* behind a record that was queued before
C25_Witness ==
    /\ Len(items) = 2
    /\ InProgress(Queue[2])
    /\ Queue[2].StartTime = <<Queue[2].QueuedAt>>
    /\ Queue[2].QueuedAt > Queue[1].QueuedAt

\* the instants from the start of q's timer to one minute past its end
TimerSpan(q) == Deref(q.StartTime) .. Deadline(q) + Minute

\* C26: GetRemainingMinutes is 0 for a record that is not in_progress; for an
\* in_progress record started at T with D minutes it is D at T, never
\* negative, never more than D, never larger at a later instant, and 0 at
\* and after T + D
C26_RemainingMinutesRange ==
    \A i \in 1 .. Len(items) :
        LET q == Queue[i]
        IN IF ~InProgress(q)
           THEN \A t \in q.QueuedAt .. now + Minute :
                    GetRemainingMinutes(q, t) = 0
           ELSE /\ GetRemainingMinutes(q, Deref(q.StartTime)) = q.Duration
                /\ \A t \in TimerSpan(q) :
                      /\ GetRemainingMinutes(q, t) >= 0
                      /\ GetRemainingMinutes(q, t) <= q.Duration
                      /\ GetRemainingMinutes(q, t + 1) <= GetRemainingMinutes(q, t)
                      /\ t >= Deadline(q) => GetRemainingMinutes(q, t) = 0

\* a timer of two minutes has run for one minute
C26_Witness ==
    \E i \in 1 .. Len(items) :
        /\ InProgress(Queue[i])
        /\ Queue[i].Duration = 2
        /\ now = Deref(Queue[i].StartTime) + Minute
        /\ GetRemainingMinutes(Queue[i], now) = 1

\* form values that are no load count within 1..10, and form values that
\* are no positive duration
BadLoads == {"0", "11", "x"}
BadDurations == {"0", "x"}

\* the request ended with an error response and the queue is as it was
Rejected(out) ==
    /\ out.ret # "queue.html"
    /\ out.items = items
    /\ out.heap = heap

\* C27: an add request with an empty name, with a load count outside 1..10
\* or, when the queue holds nothing that waits or runs, with a duration that
\* is not a positive number, and a start request with such a duration, ends
\* with an error response and the queue as it was
C27_InvalidRequestsRejected ==
    /\ \A name \in FormNames, n \in FormLoads, d \in FormDurations :
          (\/ name = ""
           \/ n \in BadLoads
           \/ d \in BadDurations /\ ~DoHasQueueItems.ret)
          => Rejected(DoWebAddToQueue(name, n, d))
    /\ \A id \in RequestIDs, d \in BadDurations \cup {""} :
          Rejected(DoWebStartTimer(id, d))

\* the queue holds a waiting record a start request can name and, behind a
\* record that has run out, nothing else: requests of both kinds can arrive
C27_Witness ==
    /\ \E i \in 1 .. Len(items) : Waiting(Queue[i])
    /\ \E i \in 1 .. Len(items) : Completed(Queue[i])

\* C30: at every instant at most one record of the queue is in_progress
\* with the time before its deadline
C30_AtMostOneRunning ==
    Cardinality({i \in 1 .. Len(items) :
                    InProgress(Queue[i]) /\ now < Deadline(Queue[i])}) <= 1

\* the goroutines inside a method of the queue, between its lock and unlock
InsideMethod ==
    {h \in Handlers : pc[h] \in {"held", "append"}}
        \cup (IF pc[Worker] \in {"loop", "stamp"} THEN {Worker} ELSE {})

\* the lock is held by the goroutines inside a method and by no other, and
\* some goroutine that holds it or asks for it can take a step
LockNeverStuck ==
    /\ writers \cup readers = InsideMethod
    /\ ENABLED (WorkerLock \/ WorkerStep \/ \E h \in Handlers : HandlerStep(h))

\* C28: every method and every pass of the worker holds the lock from its
\* first step to its return and not beyond, the goroutines never all wait
\* for each other, every request that arrived is answered in the end, and
\* the worker takes the lock and gives it back again and again
C28_NoDeadlockAndProgress ==
    /\ []LockNeverStuck
    /\ <>[](\A h \in Handlers : pc[h] \in {"idle", "done"})
    /\ []<><<WorkerUnlock>>_vars

\* both handlers wait for the lock while the worker's pass holds it
C28_Witness ==
    /\ pc[Worker] = "loop"
    /\ \A h \in Handlers : pc[h] = "call"

\* the timer of q has nothing to count from: no start time, or no duration
Underivable(q) == q.StartTime = Nil \/ q.Duration = 0

\* C29: a pass of the worker leaves in_progress every in_progress record
\* that has no start time or a duration of 0
C29_SweepSkipsUnderivable ==
    \A i \in 1 .. Len(items) :
        InProgress(Queue[i]) /\ Underivable(Queue[i])
            => InProgress(DoSweep.heap[items[i]])

\* C31: for every in_progress record of the queue and at every instant,
\* IsTimerExpired (GetRemainingMinutes() <= 0) and the IsTimerExpired of
\* models/schedule.go (now after StartTime + Duration) give the same answer
C31_SameExpiryAsEarlier ==
    \A i \in 1 .. Len(items) :
        InProgress(Queue[i]) =>
            (IsTimerExpired(Queue[i], now) <=> EarlierIsTimerExpired(Queue[i], now))

\* where pointer p stands in q.items
IndexOf(p) == CHOOSE i \in 1 .. Len(items) : items[i] = p

\* C32: a second pass of the worker right after a pass, at the same instant,
\* changes nothing, and the records a pass keeps stand in the order they had,
\* each with every field but Status and CompletedAt as before
C32_SweepIdempotentAndOrdered ==
    LET once == DoSweep
        twice == SweepPass(once.items, once.heap)
    IN /\ twice.items = once.items
       /\ twice.heap = once.heap
       /\ Range(once.items) \subseteq Range(items)
       /\ \A i, j \in 1 .. Len(once.items) :
             i < j => IndexOf(once.items[i]) < IndexOf(once.items[j])
       /\ \A p \in Range(once.items) :
             [once.heap[p] EXCEPT !.Status = heap[p].Status,
                                  !.CompletedAt = heap[p].CompletedAt] = heap[p]

\* the pass at this instant completes a record and evicts another, and
\* keeps at least one
C32_Witness ==
    /\ \E i \in 1 .. Len(items) : Expires(Queue[i])
    /\ Len(DoSweep.items) < Len(items)
    /\ Len(DoSweep.items) >= 1

\* what GetQueuePosition(id) returns once a method has left outcome out
PositionAfter(out, id) == PositionIn(out.items, out.heap, 1, 0, id)

\* the positions of the waiting records other than the k-th, once the k-th
\* has left the waiting set with outcome out: one less behind it, the same
\* before it
ShiftedBehind(k, out) ==
    \A i \in 1 .. Len(items) :
        Waiting(Queue[i]) /\ i # k =>
            PositionAfter(out, Queue[i].ID) =
                DoGetQueuePosition(Queue[i].ID).ret - (IF i > k THEN 1 ELSE 0)

\* outcome out leaves every waiting record its position
PositionsKept(out) ==
    \A i \in 1 .. Len(items) :
        Waiting(Queue[i]) =>
            PositionAfter(out, Queue[i].ID) = DoGetQueuePosition(Queue[i].ID).ret

\* C33: a successful StartTimer or Remove that takes a waiting record out of
\* the waiting set lowers the position of every waiting record behind it by
\* exactly one and leaves the position of every waiting record before it; a
\* pass of the worker and AddAndStart leave every waiting record's position
C33_PositionsShift ==
    /\ \A id \in RequestIDs, d \in Durations, k \in 1 .. Len(items) :
          LET out == DoStartTimer(id, d)
          IN out.ret /\ Waiting(Queue[k]) /\ ~Waiting(out.heap[items[k]])
                => ShiftedBehind(k, out)
    /\ \A id \in RequestIDs, k \in 1 .. Len(items) :
          LET out == DoRemove(id)
          IN out.ret /\ Waiting(Queue[k]) /\ items[k] \notin Range(out.items)
                => ShiftedBehind(k, out)
    /\ PositionsKept(DoSweep)
    /\ \A name \in Names, d \in Durations, n \in Loads :
          PositionsKept(DoAddAndStart(name, d, n))

\* C34: in models/schedule.go one GetAll leaves the queue one pass of the
\* worker would leave from the same state at the same instant, and the slice
\* it returns holds no in_progress record past its deadline and no completed
\* record older than five minutes
C34_EarlierGetAllIsAPass ==
    LET out == DoEarlierGetAll
    IN /\ out.items = DoEarlierSweep.items
       /\ out.heap = DoEarlierSweep.heap
       /\ out.ret = out.items
       /\ \A k \in 1 .. Len(out.ret) :
             LET q == out.heap[out.ret[k]]
             IN /\ ~(InProgress(q) /\ now > Deadline(q))
                /\ ~(Completed(q) /\ now - Deref(q.CompletedAt) > Grace)

\* the queue holds an in_progress record past its deadline and a completed
\* record older than five minutes: GetAll has both loops to run
C34_Witness ==
    /\ \E i \in 1 .. Len(items) : InProgress(Queue[i]) /\ now > Deadline(Queue[i])
    /\ \E i \in 1 .. Len(items) :
          Completed(Queue[i]) /\ now - Deref(Queue[i].CompletedAt) > Grace

\* C35: whatever Add and Remove calls came before and in whatever order
\* the map is visited, GetAll returns the stored items and no other, one for
\* each ID (the one added last), in order of non-decreasing StartTime
C35_GetAllSortedAndExact ==
    \A o \in RangeOrders :
        LET result == DoScheduleGetAll(o)
        IN /\ Len(result) = Cardinality(DOMAIN items)
           /\ \A id \in DOMAIN items :
                 /\ \E k \in 1 .. Len(result) : result[k] = items[id]
                 /\ heap[items[id]].ID = id
           /\ \A k, l \in 1 .. Len(result) :
                 k # l => heap[result[k]].ID # heap[result[l]].ID
           /\ \A k \in 1 .. Len(result) - 1 :
                 heap[result[k]].StartTime <= heap[result[k + 1]].StartTime
           /\ \A k \in 1 .. Len(result) : result[k] \notin gone

\* three items are stored after an earlier item was replaced or removed,
\* and the map can be visited latest start first
C35_Witness ==
    /\ Cardinality(DOMAIN items) = 3
    /\ gone # {}
    /\ \E a, b, c \in DOMAIN items :
          /\ heap[items[a]].StartTime > heap[items[b]].StartTime
          /\ heap[items[b]].StartTime > heap[items[c]].StartTime

====
